---- MODULE Spec2Model ----
(***************************************************************************)
(* Model of tool/build_mbtiles.py: one run of main(), which walks the      *)
(* three-level tile tree SOURCE_DIR/{z}/{x}/{y}.png and bulk-loads it into *)
(* the MBTiles database DEST_FILE.                                         *)
(*                                                                         *)
(* Representation choices:                                                 *)
(*  - a file or directory name is a tuple of one-character strings;        *)
(*  - the source tree is a set of paths, a path being a tuple of entries   *)
(*    (name, kind); a path of length 1 or 2 is an entry with nothing       *)
(*    below it;                                                            *)
(*  - longitudes and latitudes are integers in microdegrees (the unit of   *)
(*    the '.6f' format of the metadata); rounding is monotone, so min and  *)
(*    max commute with it;                                                 *)
(*  - tile_data is the path of the file the bytes were read from;          *)
(*  - None is the empty tuple and a value v of an accumulator is <<v>>.    *)
(***************************************************************************)
EXTENDS Integers, Sequences, FiniteSets, TLC

\* Largest number of paths in the source tree drawn by Init.
MaxPaths == 2

None == <<>>

Some(v) == <<v>>

----------------------------------------------------------------------------
\* Names and entries of the source tree

D(name) == [name |-> name, kind |-> "dir"]

F(name) == [name |-> name, kind |-> "file"]

Png(stem) == stem \o <<".", "p", "n", "g">>

\* The paths Init builds source trees from.
Catalogue ==
    LET d0 == D(<<"0">>)
        d1 == D(<<"1">>)
        d01 == D(<<"0", "1">>)
    IN  { <<D(<<"z", "1">>)>>, <<F(<<"2">>)>>, <<d0>>, <<d1>>,
          <<d1, D(<<"x">>)>>, <<d1, F(<<"2">>)>>, <<d1, d0>>,
          <<d1, d0, F(Png(<<"0">>))>>,
          <<d1, d0, F(Png(<<"1">>))>>,
          <<d1, d0, F(Png(<<"0", "1">>))>>,
          <<d1, d0, F(<<"1", ".", "P", "N", "G">>)>>,
          <<d1, d0, F(Png(<<"a", "b", "c">>))>>,
          <<d1, d0, F(<<"0", ".", "t", "x", "t">>)>>,
          <<d1, d0, D(Png(<<"5">>))>>,
          <<d1, d0, F(Png(<<"9", "9", "9">>))>>,
          <<d1, d1, F(Png(<<"1">>))>>,
          <<d0, d0, F(Png(<<"0">>))>>,
          <<d0, d0, F(Png(<<"1">>))>>,
          <<d01, d0, F(Png(<<"0">>))>> }

Trees == {t \in SUBSET Catalogue : Cardinality(t) <= MaxPaths}

----------------------------------------------------------------------------
\* String functions of the Python runtime the traversal uses

Digits == {"0", "1", "2", "3", "4", "5", "6", "7", "8", "9"}

DigitVal(c) ==
    CASE c = "0" -> 0 [] c = "1" -> 1 [] c = "2" -> 2 [] c = "3" -> 3
      [] c = "4" -> 4 [] c = "5" -> 5 [] c = "6" -> 6 [] c = "7" -> 7
      [] c = "8" -> 8 [] c = "9" -> 9

\* str.isdigit(): non-empty and every character a digit
IsDigit(name) == Len(name) > 0 /\ \A i \in 1..Len(name) : name[i] \in Digits

\* int(str) of an all-digit string: leading zeros carry no value
RECURSIVE ParseInt(_)
ParseInt(name) ==
    IF name = <<>> THEN 0
    ELSE ParseInt(SubSeq(name, 1, Len(name) - 1)) * 10 + DigitVal(name[Len(name)])

\* str(int) of a non-negative integer
RECURSIVE IntToStr(_)
IntToStr(n) ==
    LET d == CASE n % 10 = 0 -> "0" [] n % 10 = 1 -> "1" [] n % 10 = 2 -> "2"
               [] n % 10 = 3 -> "3" [] n % 10 = 4 -> "4" [] n % 10 = 5 -> "5"
               [] n % 10 = 6 -> "6" [] n % 10 = 7 -> "7" [] n % 10 = 8 -> "8"
               [] n % 10 = 9 -> "9"
    IN  IF n < 10 THEN <<d>> ELSE IntToStr(n \div 10) \o <<d>>

\* Code point of a character (the order of str comparison)
Ord(c) ==
    CASE c = "." -> 46 [] c = "0" -> 48 [] c = "1" -> 49 [] c = "2" -> 50
      [] c = "5" -> 53 [] c = "9" -> 57 [] c = "G" -> 71 [] c = "N" -> 78
      [] c = "P" -> 80 [] c = "a" -> 97 [] c = "b" -> 98 [] c = "c" -> 99
      [] c = "g" -> 103 [] c = "n" -> 110 [] c = "p" -> 112 [] c = "t" -> 116
      [] c = "x" -> 120 [] c = "z" -> 122

\* str.lower() on one character
LowerChar(c) ==
    CASE c = "G" -> "g" [] c = "N" -> "n" [] c = "P" -> "p" [] OTHER -> c

Lower(s) == [i \in 1..Len(s) |-> LowerChar(s[i])]

\* a < b for two strings
RECURSIVE NameLess(_, _)
NameLess(a, b) ==
    IF b = <<>> THEN FALSE
    ELSE IF a = <<>> THEN TRUE
    ELSE IF Ord(a[1]) # Ord(b[1]) THEN Ord(a[1]) < Ord(b[1])
    ELSE NameLess(Tail(a), Tail(b))

\* Index of the last "." of a name, 0 when there is none
LastDot(name) ==
    LET dots == {i \in 1..Len(name) : name[i] = "."}
    IN  IF dots = {} THEN 0 ELSE CHOOSE i \in dots : \A j \in dots : j <= i

\* PurePath.suffix: from the last dot on, unless the dot leads or ends the name
Suffix(name) ==
    LET i == LastDot(name)
    IN  IF i <= 1 \/ i = Len(name) THEN <<>> ELSE SubSeq(name, i, Len(name))

\* PurePath.stem: the name without its suffix
Stem(name) == SubSeq(name, 1, Len(name) - Len(Suffix(name)))

\* Path.iterdir(): the entries directly below the directory at prefix
IterDir(tree, prefix) ==
    {p[Len(prefix) + 1] :
        p \in {q \in tree : Len(q) > Len(prefix)
                            /\ SubSeq(q, 1, Len(prefix)) = prefix}}

\* sorted(entries, key=lambda p: p.name)
RECURSIVE SortedByName(_)
SortedByName(S) ==
    IF S = {} THEN <<>>
    ELSE LET m == CHOOSE e \in S : \A o \in S : ~NameLess(o.name, e.name)
         IN  <<m>> \o SortedByName(S \ {m})

----------------------------------------------------------------------------
\* Arithmetic of the conversion and of tile_bounds

RECURSIVE Pow2(_)
Pow2(z) == IF z = 0 THEN 1 ELSE 2 * Pow2(z - 1)

Min(a, b) == IF a <= b THEN a ELSE b

Max(a, b) == IF a >= b THEN a ELSE b

\* v if acc is None else min(acc, v)
FoldMin(acc, v) == IF acc = None THEN Some(v) ELSE Some(Min(acc[1], v))

\* a maximum that keeps the first value it was given
FoldMaxKeepsFirst(acc, v) == IF acc = None THEN Some(v) ELSE acc

\* v if acc is None else max(acc, v)
FoldMax(acc, v) == IF acc = None THEN Some(v) ELSE Some(Max(acc[1], v))

\* the conversion without its "- 1"
TmsYOffByOne(z, y) == Pow2(z) - y

\* tms_y = (1 << z) - 1 - y
TmsY(z, y) == Pow2(z) - 1 - y

\* x / n * 360.0 - 180.0, in microdegrees (n, a power of two, divides 360e6
\* up to 2^9)
LonEdge(x, n) == x * (360000000 \div n) - 180000000

\* math.sinh raises OverflowError when |pi * (1 - 2 * tile_y / n)| exceeds
\* about 710.4758, that is when |1 - 2 * tile_y / n| exceeds about 226.1515
SinhOverflows(tile_y, n) ==
    LET a == n - 2 * tile_y
        mag == IF a < 0 THEN 0 - a ELSE a
    IN  mag * 10000 > 2261515 * n

\* degrees(atan(sinh(pi * (1 - 2 * tile_y / n)))) in microdegrees, tabulated
\* by h = 2 * tile_y / n for the zoom levels of Catalogue (n = 1 or n = 2)
MercatorToLat(tile_y, n) ==
    LET h == (2 * tile_y) \div n
    IN  CASE h = 0 -> 85051129
          [] h = 1 -> 0
          [] h = 2 -> 0 - 85051129
          [] h = 3 -> 0 - 89786007
          [] h = 4 -> 0 - 89990753
          [] h = 5 -> 0 - 89999600
          [] h = 6 -> 0 - 89999983

\* tile_bounds with the two latitudes taken from the wrong rows
TileBoundsSwapped(x, y, z) ==
    LET n == Pow2(z)
    IN  [lon_left   |-> LonEdge(x, n),
         lat_bottom |-> MercatorToLat(y, n),
         lon_right  |-> LonEdge(x + 1, n),
         lat_top    |-> MercatorToLat(y + 1, n)]

\* tile_bounds(x, y, z) = (lon_left, lat_bottom, lon_right, lat_top)
TileBounds(x, y, z) ==
    LET n == Pow2(z)
    IN  [lon_left   |-> LonEdge(x, n),
         lat_bottom |-> MercatorToLat(y + 1, n),
         lon_right  |-> LonEdge(x + 1, n),
         lat_top    |-> MercatorToLat(y, n)]

\* tile_bounds raises: mercator_to_lat(y) or mercator_to_lat(y + 1) overflows
TileBoundsRaises(y, z) ==
    SinhOverflows(y, Pow2(z)) \/ SinhOverflows(y + 1, Pow2(z))

\* min_zoom if min_zoom == max_zoom else (min_zoom + max_zoom) // 2
CenterZoom(lo, hi) == IF lo = hi THEN lo ELSE (lo + hi) \div 2

----------------------------------------------------------------------------
\* State of one run of main()

VARIABLES
    input,       \* what the run finds: SOURCE_DIR (exists, tree), DEST_FILE before
    pc,          \* position in main()
    error,       \* the exception that ended main(), "none" while there is none
    dest,        \* DEST_FILE: "absent", "stale" (a file of an earlier run), "db"
    destParent,  \* DEST_FILE.parent exists
    destSchema,  \* the tables and the unique index exist in DEST_FILE
    destTiles,   \* rows of tiles written to DEST_FILE
    metadata,    \* rows of metadata written to DEST_FILE
    conn,        \* the sqlite3 connection: "none", "open", "closed"
    inTx,        \* the connection is inside the BEGIN ... commit transaction
    tiles,       \* rows of tiles as the connection sees them, in rowid order
    handles,     \* number of open tile file handles
    zList, xList, yList,   \* entries each for loop has still to visit
    zDir, xDir, tileFile,  \* the entry each loop is at
    z, x, y, data,
    min_zoom, max_zoom, min_lon, min_lat, max_lon, max_lat, tile_count

walk == <<zList, xList, yList, zDir, xDir, tileFile, z, x, y, data>>

zooms == <<min_zoom, max_zoom>>

accs == <<min_lon, min_lat, max_lon, max_lat, tile_count>>

file == <<dest, destParent, destSchema, destTiles, metadata>>

db == <<conn, inTx, tiles>>

vars == <<input, pc, error, file, db, handles, walk, zooms, accs>>

NoEntry == [name |-> <<>>, kind |-> "none"]

\* A run starts with SOURCE_DIR absent or holding a tree, and with DEST_FILE
\* absent (with or without its parent directory) or left by an earlier run.
Init ==
    /\ input \in
         {[srcExists |-> e, tree |-> t, dest |-> d[1], destParent |-> d[2]] :
            e \in BOOLEAN, t \in Trees,
            d \in {<<"absent", FALSE>>, <<"absent", TRUE>>, <<"stale", TRUE>>}}
    /\ input.srcExists = FALSE => input.tree = {}
    /\ pc = "start"
    /\ error = "none"
    /\ dest = input.dest
    /\ destParent = input.destParent
    /\ destSchema = FALSE
    /\ destTiles = <<>>
    /\ metadata = <<>>
    /\ conn = "none"
    /\ inTx = FALSE
    /\ tiles = <<>>
    /\ handles = 0
    /\ zList = <<>> /\ xList = <<>> /\ yList = <<>>
    /\ zDir = NoEntry /\ xDir = NoEntry /\ tileFile = NoEntry
    /\ z = 0 /\ x = 0 /\ y = 0 /\ data = <<>>
    /\ min_zoom = None /\ max_zoom = None
    /\ min_lon = None /\ min_lat = None /\ max_lon = None /\ max_lat = None
    /\ tile_count = 0

\* raise: main() ends with the exception; nothing else is done on the way out
Raise(e) == pc' = "failed" /\ error' = e

----------------------------------------------------------------------------
\* main(), lines 21-56

\* the existence test placed after the unlink of DEST_FILE
SourceMissingAfterUnlink ==
    /\ pc = "start"
    /\ ~input.srcExists
    /\ dest' = "absent"
    /\ Raise("SystemExit: source not found")
    /\ UNCHANGED <<input, destParent, destSchema, destTiles, metadata, db,
                   handles, walk, zooms, accs>>

\* if not SOURCE_DIR.exists(): raise SystemExit
SourceMissing ==
    /\ pc = "start"
    /\ ~input.srcExists
    /\ Raise("SystemExit: source not found")
    /\ UNCHANGED <<input, file, db, handles, walk, zooms, accs>>

SourceFound ==
    /\ pc = "start"
    /\ input.srcExists
    /\ pc' = "prepare"
    /\ UNCHANGED <<input, error, file, db, handles, walk, zooms, accs>>

\* unlink a stale DEST_FILE, mkdir its parent, connect, create the schema
\* (each CREATE is committed as it runs), BEGIN, and list SOURCE_DIR
OpenDest ==
    /\ pc = "prepare"
    /\ dest' = "db"
    /\ destParent' = TRUE
    /\ destSchema' = TRUE
    /\ destTiles' = <<>>
    /\ metadata' = <<>>
    /\ conn' = "open"
    /\ inTx' = TRUE
    /\ tiles' = <<>>
    /\ min_zoom' = None /\ max_zoom' = None
    /\ min_lon' = None /\ min_lat' = None /\ max_lon' = None /\ max_lat' = None
    /\ tile_count' = 0
    /\ zList' = SortedByName(IterDir(input.tree, <<>>))
    /\ pc' = "zloop"
    /\ UNCHANGED <<input, error, handles, xList, yList, zDir, xDir, tileFile,
                   z, x, y, data>>

----------------------------------------------------------------------------
\* The three nested loops, lines 58-88

\* if not p.is_dir() or not p.name.isdigit(): continue
IsNumberedDir(p) == p.kind = "dir" /\ IsDigit(p.name)

\* the two tests of lines 69-73 a tile file has to pass
IsTileName(p) ==
    Lower(Suffix(p.name)) = <<".", "p", "n", "g">> /\ IsDigit(Stem(p.name))

SkipZ ==
    /\ pc = "zloop"
    /\ zList # <<>>
    /\ ~IsNumberedDir(Head(zList))
    /\ zList' = Tail(zList)
    /\ UNCHANGED <<input, pc, error, file, db, handles, xList, yList, zDir,
                   xDir, tileFile, z, x, y, data, zooms, accs>>

EnterZ ==
    /\ pc = "zloop"
    /\ zList # <<>>
    /\ IsNumberedDir(Head(zList))
    /\ zDir' = Head(zList)
    /\ zList' = Tail(zList)
    /\ z' = ParseInt(Head(zList).name)
    /\ min_zoom' = FoldMin(min_zoom, z')
    /\ max_zoom' = FoldMax(max_zoom, z')
    /\ xList' = SortedByName(IterDir(input.tree, <<zDir'>>))
    /\ pc' = "xloop"
    /\ UNCHANGED <<input, error, file, db, handles, yList, xDir, tileFile,
                   x, y, data, accs>>

SkipX ==
    /\ pc = "xloop"
    /\ xList # <<>>
    /\ ~IsNumberedDir(Head(xList))
    /\ xList' = Tail(xList)
    /\ UNCHANGED <<input, pc, error, file, db, handles, zList, yList, zDir,
                   xDir, tileFile, z, x, y, data, zooms, accs>>

EnterX ==
    /\ pc = "xloop"
    /\ xList # <<>>
    /\ IsNumberedDir(Head(xList))
    /\ xDir' = Head(xList)
    /\ xList' = Tail(xList)
    /\ x' = ParseInt(Head(xList).name)
    /\ yList' = SortedByName(IterDir(input.tree, <<zDir, xDir'>>))
    /\ pc' = "yloop"
    /\ UNCHANGED <<input, error, file, db, handles, zList, zDir, tileFile,
                   z, y, data, zooms, accs>>

\* the loop over a zoom directory is exhausted
EndX ==
    /\ pc = "xloop"
    /\ xList = <<>>
    /\ pc' = "zloop"
    /\ UNCHANGED <<input, error, file, db, handles, walk, zooms, accs>>

\* the loop over a column directory is exhausted
EndY ==
    /\ pc = "yloop"
    /\ yList = <<>>
    /\ pc' = "xloop"
    /\ UNCHANGED <<input, error, file, db, handles, walk, zooms, accs>>

SkipY ==
    /\ pc = "yloop"
    /\ yList # <<>>
    /\ ~IsTileName(Head(yList))
    /\ yList' = Tail(yList)
    /\ UNCHANGED <<input, pc, error, file, db, handles, zList, xList, zDir,
                   xDir, tileFile, z, x, y, data, zooms, accs>>

\* y = int(stem); tile_file.open('rb') on a regular file
OpenTile ==
    /\ pc = "yloop"
    /\ yList # <<>>
    /\ IsTileName(Head(yList))
    /\ Head(yList).kind = "file"
    /\ tileFile' = Head(yList)
    /\ yList' = Tail(yList)
    /\ y' = ParseInt(Stem(Head(yList).name))
    /\ handles' = handles + 1
    /\ pc' = "read"
    /\ UNCHANGED <<input, error, file, db, zList, xList, zDir, xDir, z, x,
                   data, zooms, accs>>

\* y = int(stem); tile_file.open('rb') on a directory raises IsADirectoryError
OpenTileRaises ==
    /\ pc = "yloop"
    /\ yList # <<>>
    /\ IsTileName(Head(yList))
    /\ Head(yList).kind # "file"
    /\ tileFile' = Head(yList)
    /\ yList' = Tail(yList)
    /\ y' = ParseInt(Stem(Head(yList).name))
    /\ Raise("IsADirectoryError")
    /\ UNCHANGED <<input, file, db, handles, zList, xList, zDir, xDir, z, x,
                   data, zooms, accs>>

\* data = fh.read(); the with statement closes fh
ReadTile ==
    /\ pc = "read"
    /\ data' = <<zDir, xDir, tileFile>>
    /\ handles' = handles - 1
    /\ pc' = "insert"
    /\ UNCHANGED <<input, error, file, db, zList, xList, yList, zDir, xDir,
                   tileFile, z, x, y, zooms, accs>>

\* fh.read() raises OSError; the with statement closes fh on the way out
ReadTileRaises ==
    /\ pc = "read"
    /\ handles' = handles - 1
    /\ Raise("OSError")
    /\ UNCHANGED <<input, file, db, zList, xList, yList, zDir, xDir,
                   tileFile, z, x, y, data, zooms, accs>>

\* a tiles table without its unique index
UniqueViolationNever(rows, zl, tc, tr) == FALSE

\* CREATE UNIQUE INDEX idx_tiles_zxy: a row with this key is already there
UniqueViolation(rows, zl, tc, tr) ==
    \E i \in 1..Len(rows) :
        /\ rows[i].zoom_level = zl
        /\ rows[i].tile_column = tc
        /\ rows[i].tile_row = tr

\* The INSERT of lines 77-82.  PRAGMA journal_mode=OFF: there is no rollback
\* journal, so the pages the pager spills to DEST_FILE before the commit
\* cannot be taken back; whether it spills is up to the page cache.
InsertTile ==
    /\ pc = "insert"
    /\ ~UniqueViolation(tiles, z, x, TmsY(z, y))
    /\ tiles' = Append(tiles, [zoom_level |-> z, tile_column |-> x,
                               tile_row |-> TmsY(z, y), tile_data |-> data])
    /\ \E spill \in BOOLEAN : destTiles' = IF spill THEN tiles' ELSE destTiles
    /\ pc' = "fold"
    /\ UNCHANGED <<input, error, dest, destParent, destSchema, metadata, conn,
                   inTx, handles, walk, zooms, accs>>

\* The INSERT raises sqlite3.IntegrityError
InsertTileRaises ==
    /\ pc = "insert"
    /\ UniqueViolation(tiles, z, x, TmsY(z, y))
    /\ Raise("IntegrityError")
    /\ UNCHANGED <<input, file, db, handles, walk, zooms, accs>>

\* lines 83-88
FoldBounds ==
    /\ pc = "fold"
    /\ ~TileBoundsRaises(y, z)
    /\ LET b == TileBounds(x, y, z)
       IN  /\ min_lon' = FoldMin(min_lon, b.lon_left)
           /\ max_lon' = FoldMax(max_lon, b.lon_right)
           /\ min_lat' = FoldMin(min_lat, b.lat_bottom)
           /\ max_lat' = FoldMax(max_lat, b.lat_top)
    /\ tile_count' = tile_count + 1
    /\ pc' = "yloop"
    /\ UNCHANGED <<input, error, file, db, handles, walk, zooms>>

\* tile_bounds raises OverflowError (math range error)
FoldBoundsRaises ==
    /\ pc = "fold"
    /\ TileBoundsRaises(y, z)
    /\ Raise("OverflowError")
    /\ UNCHANGED <<input, file, db, handles, walk, zooms, accs>>

----------------------------------------------------------------------------
\* main(), lines 90-119

\* the loop over SOURCE_DIR is exhausted; conn.commit()
Commit ==
    /\ pc = "zloop"
    /\ zList = <<>>
    /\ destTiles' = tiles
    /\ inTx' = FALSE
    /\ pc' = "check"
    /\ UNCHANGED <<input, error, dest, destParent, destSchema, metadata, conn,
                   tiles, handles, walk, zooms, accs>>

\* if tile_count == 0: raise SystemExit
NoTiles ==
    /\ pc = "check"
    /\ tile_count = 0
    /\ Raise("SystemExit: no tiles")
    /\ UNCHANGED <<input, file, db, handles, walk, zooms, accs>>

\* the metadata dict of lines 95-110
Metadata ==
    [name        |-> "Campus Map",
     type        |-> "baselayer",
     description |-> "Offline campus tiles",
     format      |-> "png",
     version     |-> "1.0",
     bounds      |-> <<min_lon[1], min_lat[1], max_lon[1], max_lat[1]>>,
     center      |-> <<(min_lon[1] + max_lon[1]) \div 2,
                       (min_lat[1] + max_lat[1]) \div 2,
                       CenterZoom(min_zoom[1], max_zoom[1])>>,
     minzoom     |-> IntToStr(min_zoom[1]),
     maxzoom     |-> IntToStr(max_zoom[1]),
     tilecount   |-> IntToStr(tile_count)]

\* executemany of the metadata rows, commit, close
WriteMetadata ==
    /\ pc = "check"
    /\ tile_count # 0
    /\ metadata' = Metadata
    /\ conn' = "closed"
    /\ pc' = "done"
    /\ UNCHANGED <<input, error, dest, destParent, destSchema, destTiles, inTx,
                   tiles, handles, walk, zooms, accs>>

Next ==
    \/ SourceMissing \/ SourceFound \/ OpenDest
    \/ SkipZ \/ EnterZ \/ SkipX \/ EnterX \/ EndX \/ EndY
    \/ SkipY \/ OpenTile \/ OpenTileRaises \/ ReadTile \/ ReadTileRaises
    \/ InsertTile \/ InsertTileRaises \/ FoldBounds \/ FoldBoundsRaises
    \/ Commit \/ NoTiles \/ WriteMetadata

Spec == Init /\ [][Next]_vars

----------------------------------------------------------------------------
\* Properties

Ended == pc \in {"done", "failed"}

\* A tile of the source: numbered directory / numbered directory / regular
\* file named <digits>.png in any letter case
TilePaths ==
    {p \in input.tree :
        /\ Len(p) = 3
        /\ p[1].kind = "dir" /\ IsDigit(p[1].name)
        /\ p[2].kind = "dir" /\ IsDigit(p[2].name)
        /\ p[3].kind = "file" /\ IsDigit(Stem(p[3].name))
        /\ Lower(Suffix(p[3].name)) = <<".", "p", "n", "g">>}

SrcZ(p) == ParseInt(p[1].name)

SrcX(p) == ParseInt(p[2].name)

SrcY(p) == ParseInt(Stem(p[3].name))

\* The (z, x, TMS row) a tile of the source maps to
SrcKey(p) == <<SrcZ(p), SrcX(p), Pow2(SrcZ(p)) - 1 - SrcY(p)>>

RowKey(r) == <<r.zoom_level, r.tile_column, r.tile_row>>

\* C1: every row of tiles, in the connection and in DEST_FILE, is
\* (z, x, 2^z - 1 - y) for the z, x and y of the file its data was read
\* from, and 2^z - 1 - tile_row gives that y back, also when y >= 2^z.
C1_TmsRoundTrip ==
    \A rows \in {tiles, destTiles} : \A i \in 1..Len(rows) :
        LET r == rows[i]
            p == r.tile_data
        IN  /\ r.zoom_level = SrcZ(p)
            /\ r.tile_column = SrcX(p)
            /\ r.tile_row = Pow2(SrcZ(p)) - 1 - SrcY(p)
            /\ Pow2(r.zoom_level) - 1 - r.tile_row = SrcY(p)

\* A finished run that stored a tile whose y is beyond the last row of its zoom
C1_Witness ==
    /\ pc = "done"
    /\ \E i \in 1..Len(destTiles) :
          /\ destTiles[i].tile_row < 0
          /\ SrcY(destTiles[i].tile_data) >= Pow2(destTiles[i].zoom_level)

KeysUnique(rows) ==
    \A i, j \in 1..Len(rows) : i # j => RowKey(rows[i]) # RowKey(rows[j])

SourceCollides ==
    \E p, q \in TilePaths : p # q /\ SrcKey(p) = SrcKey(q)

\* C2: no two rows of tiles share (zoom_level, tile_column, tile_row); a
\* source with two tiles that map to the same key never ends in success; the
\* rows in DEST_FILE are rows of the connection, unaltered, and a successful
\* run holds one row, with its own data, for every tile of the source.
C2_UniqueRows ==
    /\ KeysUnique(tiles)
    /\ KeysUnique(destTiles)
    /\ (SourceCollides /\ Ended) => pc = "failed"
    /\ Len(destTiles) <= Len(tiles)
    /\ \A i \in 1..Len(destTiles) : destTiles[i] = tiles[i]
    /\ pc = "done" =>
         /\ Len(destTiles) = Cardinality(TilePaths)
         /\ \A p \in TilePaths :
               \E i \in 1..Len(destTiles) :
                  destTiles[i].tile_data = p /\ RowKey(destTiles[i]) = SrcKey(p)

\* The second of two colliding tiles was refused after the first was inserted
C2_Witness ==
    /\ pc = "failed"
    /\ error = "IntegrityError"
    /\ SourceCollides
    /\ Len(tiles) = 1

\* C3: when SOURCE_DIR exists and holds no tile, the run fails and after it
\* there is no file at DEST_FILE.
C3_NoDestAfterZeroTiles ==
    (input.srcExists /\ TilePaths = {} /\ Ended) =>
        (pc = "failed" /\ dest = "absent")

\* C4: when SOURCE_DIR does not exist, the run fails with nothing done to the
\* destination: DEST_FILE and its parent directory are as the run found them,
\* and no connection was opened.
C4_MissingSourceNoEffect ==
    ~input.srcExists =>
        /\ dest = input.dest
        /\ destParent = input.destParent
        /\ destSchema = FALSE
        /\ destTiles = <<>>
        /\ metadata = <<>>
        /\ conn = "none"
        /\ pc # "start" =>
              (pc = "failed" /\ error = "SystemExit: source not found")

\* The run failed for the missing source with a file of an earlier run in place
C4_Witness ==
    /\ ~input.srcExists
    /\ pc = "failed"
    /\ input.dest = "stale"
    /\ dest = "stale"

InvalidEntryNext ==
    \/ /\ pc = "zloop" /\ zList # <<>>
       /\ ~(Head(zList).kind = "dir" /\ IsDigit(Head(zList).name))
    \/ /\ pc = "xloop" /\ xList # <<>>
       /\ ~(Head(xList).kind = "dir" /\ IsDigit(Head(xList).name))
    \/ /\ pc = "yloop" /\ yList # <<>>
       /\ ~(/\ Head(yList).kind = "file"
            /\ IsDigit(Stem(Head(yList).name))
            /\ Lower(Suffix(Head(yList).name)) = <<".", "p", "n", "g">>)

\* C6: an entry that is not valid for its level is stepped over: no error is
\* raised, the loop stays where it is, and the tile count, the bounds and
\* the rows are unchanged.
C6_InvalidEntriesSkipped ==
    [][InvalidEntryNext =>
         (error' = "none" /\ pc' = pc /\ accs' = accs /\ tiles' = tiles)]_vars

\* The source of the scenario: z=1 with only the tiles (x=0, y=0), (x=1, y=1)
DiagonalTree ==
    {<<D(<<"1">>), D(<<"0">>), F(Png(<<"0">>))>>,
     <<D(<<"1">>), D(<<"1">>), F(Png(<<"1">>))>>}

SetMin(S) == CHOOSE v \in S : \A w \in S : v <= w

SetMax(S) == CHOOSE v \in S : \A w \in S : v >= w

\* min of the left and bottom edges, max of the right and top edges of the
\* tiles <<x, y, z>> of T
EdgeUnion(T) ==
    <<SetMin({TileBounds(t[1], t[2], t[3]).lon_left : t \in T}),
      SetMin({TileBounds(t[1], t[2], t[3]).lat_bottom : t \in T}),
      SetMax({TileBounds(t[1], t[2], t[3]).lon_right : t \in T}),
      SetMax({TileBounds(t[1], t[2], t[3]).lat_top : t \in T})>>

ExtentZ1 == EdgeUnion({<<0, 0, 1>>, <<0, 1, 1>>, <<1, 0, 1>>, <<1, 1, 1>>})

C8_BoundsOrdered ==
    /\ tile_count > 0 =>
         (min_lon[1] <= max_lon[1] /\ min_lat[1] <= max_lat[1])
    /\ pc = "done" =>
         LET b == metadata.bounds
             c == metadata.center
         IN  /\ b[1] <= b[3] /\ b[2] <= b[4]
             /\ b[1] <= c[1] /\ c[1] <= b[3]
             /\ b[2] <= c[2] /\ c[2] <= b[4]
             /\ ParseInt(metadata.minzoom) <= c[3]
             /\ c[3] <= ParseInt(metadata.maxzoom)

\* A successful run over tiles of two zoom levels
C8_Witness ==
    /\ pc = "done"
    /\ tile_count = 2
    /\ min_zoom # max_zoom
    /\ metadata.bounds[2] < metadata.bounds[4]

\* C9: after a successful run minzoom and maxzoom are the smallest and the
\* largest zoom_level among the rows of tiles.
C9_ZoomRangeFromRows ==
    pc = "done" =>
        LET zs == {destTiles[i].zoom_level : i \in 1..Len(destTiles)}
        IN  /\ ParseInt(metadata.minzoom) = SetMin(zs)
            /\ ParseInt(metadata.maxzoom) = SetMax(zs)

\* C10: once main() has ended after opening the connection, the connection
\* is closed; at most one tile file handle is open at any time and none is
\* open when the loop moves on or main() ends.
C10_ResourcesReleased ==
    /\ (Ended /\ conn # "none") => conn = "closed"
    /\ handles <= 1
    /\ pc # "read" => handles = 0

====
